---- MODULE Spec2Model ----
(***************************************************************************)
(* Model of the rule-based translator: tokenizer, TranslatorEngine and the *)
(* Quenya and Sindarin language modules.                                   *)
(*                                                                         *)
(* A Python str is a sequence of one-character strings.  The four          *)
(* non-ASCII letters of the lexicons are written "e:" (e diaeresis),       *)
(* "a/", "i/", "o/" (acute accents); their capitals are "E:", "A/", "I/",  *)
(* "O/".  A dict is a function whose DOMAIN is its key set.  None is a     *)
(* value of the field's own kind that no program value equals.             *)
(***************************************************************************)
EXTENDS Integers, Sequences, FiniteSets, TLC

VARIABLES
  lexicon_en,          \* per language module: rows written to the forward
                       \*   table since the module was imported
  lexicon_lang_to_en,  \* per language module: items written to the reverse
                       \*   table since the module was imported
  calls,               \* the running translate() calls: locals and position
  fn,                  \* function-level check: the function under call
  arg,                 \* function-level check: its argument
  objs,                \* function-level check: the Token objects, by identity
  ret,                 \* function-level check: the value returned
  phase                \* function-level check: "call", "mid" or "return"

vars == <<lexicon_en, lexicon_lang_to_en, calls, fn, arg, objs, ret, phase>>

--------------------------------------------------------------------------
(* Python str, dict and None *)

NoneStr == <<"None">>
NonePos == "None"
NoneFeats == [None |-> "None"]
EmptyFeats == <<>>

LowerLetters ==
  <<"a","b","c","d","e","f","g","h","i","j","k","l","m",
    "n","o","p","q","r","s","t","u","v","w","x","y","z",
    "e:","a/","i/","o/">>
UpperLetters ==
  <<"A","B","C","D","E","F","G","H","I","J","K","L","M",
    "N","O","P","Q","R","S","T","U","V","W","X","Y","Z",
    "E:","A/","I/","O/">>
AsciiLetterCount == 26

LowerChar(c) ==
  IF \E i \in 1..Len(UpperLetters) : UpperLetters[i] = c
  THEN LowerLetters[CHOOSE i \in 1..Len(UpperLetters) : UpperLetters[i] = c]
  ELSE c

UpperChar(c) ==
  IF \E i \in 1..Len(LowerLetters) : LowerLetters[i] = c
  THEN UpperLetters[CHOOSE i \in 1..Len(LowerLetters) : LowerLetters[i] = c]
  ELSE c

Lower(s) == [i \in 1..Len(s) |-> LowerChar(s[i])]

EndsWith(s, suf) ==
  /\ Len(suf) <= Len(s)
  /\ SubSeq(s, Len(s) - Len(suf) + 1, Len(s)) = suf

StartsWith(s, pre) ==
  /\ Len(pre) <= Len(s)
  /\ SubSeq(s, 1, Len(pre)) = pre

DropLast(s, n) == SubSeq(s, 1, Len(s) - n)
DropFirst(s, n) == SubSeq(s, n + 1, Len(s))

\* str.replace(old, ""): every non-overlapping occurrence, left to right
RECURSIVE Remove(_, _)
Remove(s, old) ==
  IF s = <<>> THEN <<>>
  ELSE IF StartsWith(s, old) THEN Remove(DropFirst(s, Len(old)), old)
  ELSE <<Head(s)>> \o Remove(Tail(s), old)

\* " ".join(words)
RECURSIVE Join(_)
Join(words) ==
  IF words = <<>> THEN <<>>
  ELSE IF Len(words) = 1 THEN words[1]
  ELSE words[1] \o <<" ">> \o Join(Tail(words))

\* s[:1].upper() + s[1:]
Capitalize(s) == IF s = <<>> THEN <<>> ELSE <<UpperChar(s[1])>> \o Tail(s)

Get(d, k, default) == IF k \in DOMAIN d THEN d[k] ELSE default
Put(d, k, v) == [x \in DOMAIN d \cup {k} |-> IF x = k THEN v ELSE d[x]]
SetDefault(d, k, v) == IF k \in DOMAIN d THEN d ELSE Put(d, k, v)
\* dict(feats or {})
FeatsOrEmpty(feats) == IF feats = NoneFeats THEN EmptyFeats ELSE feats

--------------------------------------------------------------------------
(* tokenizer.py *)

IsWordChar(c) ==
  \/ \E i \in 1..AsciiLetterCount : LowerLetters[i] = c \/ UpperLetters[i] = c
  \/ c = "'"
IsSpace(c) == c = " "

\* WORD_RE.findall: a run of letters and apostrophes, or one other non-space
RECURSIVE WordRun(_)
WordRun(s) ==
  IF s # <<>> /\ IsWordChar(Head(s)) THEN <<Head(s)>> \o WordRun(Tail(s))
  ELSE <<>>

RECURSIVE tokenize(_)
tokenize(text) ==
  IF text = <<>> THEN <<>>
  ELSE IF IsWordChar(Head(text))
    THEN <<WordRun(text)>> \o tokenize(DropFirst(text, Len(WordRun(text))))
  ELSE IF IsSpace(Head(text)) THEN tokenize(Tail(text))
  ELSE <<(<<Head(text)>>)>> \o tokenize(Tail(text))

--------------------------------------------------------------------------
(* The lexicons: each row is one key of the dict, in insertion order *)

QuenyaLexicon ==
  <<
    [key |-> <<"f","r","i","e","n","d">>, lemma_en |-> <<"f","r","i","e","n","d">>, pos |-> "NOUN", lemma_lang |-> <<"m","e","l","d","o">>],
    [key |-> <<"k","i","n","g">>, lemma_en |-> <<"k","i","n","g">>, pos |-> "NOUN", lemma_lang |-> <<"a","r","a","n">>],
    [key |-> <<"q","u","e","e","n">>, lemma_en |-> <<"q","u","e","e","n">>, pos |-> "NOUN", lemma_lang |-> <<"t","a/","r","i">>],
    [key |-> <<"l","i","g","h","t">>, lemma_en |-> <<"l","i","g","h","t">>, pos |-> "NOUN", lemma_lang |-> <<"c","a","l","e:">>],
    [key |-> <<"d","a","r","k","n","e","s","s">>, lemma_en |-> <<"d","a","r","k","n","e","s","s">>, pos |-> "NOUN", lemma_lang |-> <<"m","o/","r","e:">>],
    [key |-> <<"w","a","t","e","r">>, lemma_en |-> <<"w","a","t","e","r">>, pos |-> "NOUN", lemma_lang |-> <<"n","e","n">>],
    [key |-> <<"r","i","n","g">>, lemma_en |-> <<"r","i","n","g">>, pos |-> "NOUN", lemma_lang |-> <<"c","o","r","m","a">>],
    [key |-> <<"b","r","i","n","g">>, lemma_en |-> <<"b","r","i","n","g">>, pos |-> "VERB", lemma_lang |-> <<"t","u","l","y","a">>],
    [key |-> <<"b","i","n","d">>, lemma_en |-> <<"b","i","n","d">>, pos |-> "VERB", lemma_lang |-> <<"n","o","t","y","a">>],
    [key |-> <<"s","e","e">>, lemma_en |-> <<"s","e","e">>, pos |-> "VERB", lemma_lang |-> <<"c","e","n","d","a">>],
    [key |-> <<"l","o","v","e">>, lemma_en |-> <<"l","o","v","e">>, pos |-> "VERB", lemma_lang |-> <<"m","e","l","e:">>],
    [key |-> <<"t","h","e">>, lemma_en |-> <<"t","h","e">>, pos |-> "DET", lemma_lang |-> <<"i">>],
    [key |-> <<"t","o">>, lemma_en |-> <<"t","o">>, pos |-> "ADP", lemma_lang |-> <<"n","a">>],
    [key |-> <<"o","f">>, lemma_en |-> <<"o","f">>, pos |-> "ADP", lemma_lang |-> <<"o">>],
    [key |-> <<"a","n","d">>, lemma_en |-> <<"a","n","d">>, pos |-> "CONJ", lemma_lang |-> <<"a","r">>],
    [key |-> <<"I">>, lemma_en |-> <<"I">>, pos |-> "PRON", lemma_lang |-> <<"n","i">>],
    [key |-> <<"y","o","u">>, lemma_en |-> <<"y","o","u">>, pos |-> "PRON", lemma_lang |-> <<"l","e">>]
  >>

SindarinLexicon ==
  <<
    [key |-> <<"f","r","i","e","n","d">>, lemma_en |-> <<"f","r","i","e","n","d">>, pos |-> "NOUN", lemma_lang |-> <<"m","e","l","l","o","n">>],
    [key |-> <<"k","i","n","g">>, lemma_en |-> <<"k","i","n","g">>, pos |-> "NOUN", lemma_lang |-> <<"a","r","a","n">>],
    [key |-> <<"l","i","g","h","t">>, lemma_en |-> <<"l","i","g","h","t">>, pos |-> "NOUN", lemma_lang |-> <<"g","a","l","a","d">>],
    [key |-> <<"d","a","r","k","n","e","s","s">>, lemma_en |-> <<"d","a","r","k","n","e","s","s">>, pos |-> "NOUN", lemma_lang |-> <<"m","o","r","n">>],
    [key |-> <<"w","a","t","e","r">>, lemma_en |-> <<"w","a","t","e","r">>, pos |-> "NOUN", lemma_lang |-> <<"n","e","n">>],
    [key |-> <<"r","i","n","g">>, lemma_en |-> <<"r","i","n","g">>, pos |-> "NOUN", lemma_lang |-> <<"e","r","e","g">>],
    [key |-> <<"b","r","i","n","g">>, lemma_en |-> <<"b","r","i","n","g">>, pos |-> "VERB", lemma_lang |-> <<"t","o","g","o">>],
    [key |-> <<"b","i","n","d">>, lemma_en |-> <<"b","i","n","d">>, pos |-> "VERB", lemma_lang |-> <<"g","o","r","n">>],
    [key |-> <<"s","e","e">>, lemma_en |-> <<"s","e","e">>, pos |-> "VERB", lemma_lang |-> <<"c","i/","r","a">>],
    [key |-> <<"l","o","v","e">>, lemma_en |-> <<"l","o","v","e">>, pos |-> "VERB", lemma_lang |-> <<"m","e","l","e","t","h">>],
    [key |-> <<"t","h","e">>, lemma_en |-> <<"t","h","e">>, pos |-> "DET", lemma_lang |-> <<"i">>],
    [key |-> <<"t","o">>, lemma_en |-> <<"t","o">>, pos |-> "ADP", lemma_lang |-> <<"n","a">>],
    [key |-> <<"o","f">>, lemma_en |-> <<"o","f">>, pos |-> "ADP", lemma_lang |-> <<"o">>],
    [key |-> <<"a","n","d">>, lemma_en |-> <<"a","n","d">>, pos |-> "CONJ", lemma_lang |-> <<"a">>],
    [key |-> <<"I">>, lemma_en |-> <<"I">>, pos |-> "PRON", lemma_lang |-> <<"i","m">>],
    [key |-> <<"y","o","u">>, lemma_en |-> <<"y","o","u">>, pos |-> "PRON", lemma_lang |-> <<"l","e">>]
  >>

Languages == {"quenya", "sindarin"}
Lexicon(lang) == IF lang = "quenya" THEN QuenyaLexicon ELSE SindarinLexicon

\* lexicon_en.get(word): the row, or None
HasKey(lex, word) == \E i \in 1..Len(lex) : lex[i].key = word
Entry(lex, word) == lex[CHOOSE i \in 1..Len(lex) : lex[i].key = word]

\* {v["lemma_lang"]: k for k, v in lexicon_en.items()}: the last row wins
Reverse(lex) ==
  [l \in {lex[i].lemma_lang : i \in 1..Len(lex)} |->
     lex[CHOOSE i \in 1..Len(lex) :
           /\ lex[i].lemma_lang = l
           /\ \A j \in 1..Len(lex) : lex[j].lemma_lang = l => j <= i].key]

--------------------------------------------------------------------------
(* engine.py: Token, Wordform *)

Token(t) ==
  [text |-> t, lemma |-> NoneStr, pos |-> NonePos, feats |-> NoneFeats, lang |-> "en"]

Wordform(surface, lemma, pos, feats) ==
  [surface |-> surface, lemma |-> lemma, pos |-> pos, feats |-> feats]

--------------------------------------------------------------------------
(* languages/quenya.py *)

quenya_noun_plural(stem) ==
  IF EndsWith(stem, <<"a">>) \/ EndsWith(stem, <<"o">>) THEN stem \o <<"r">>
  ELSE IF EndsWith(stem, <<"e:">>) THEN DropLast(stem, 1) \o <<"i">>
  ELSE stem \o <<"i">>

quenya_noun_genitive(stem) ==
  IF EndsWith(stem, <<"a">>) THEN DropLast(stem, 1) \o <<"o">>
  ELSE stem \o <<"o">>

quenya_noun_allative(stem) == stem \o <<"n","n","a">>

_verb_agreement_suffix(person, number) ==
  CASE person = "1" /\ number = "SG" -> <<"n">>
    [] person = "2" /\ number = "SG" -> <<"l">>
    [] person = "3" /\ number = "SG" -> <<>>
    [] person = "1" /\ number = "PL" -> <<"l","m","e:">>
    [] person = "2" /\ number = "PL" -> <<"l","v","e:">>
    [] person = "3" /\ number = "PL" -> <<"r">>
    [] OTHER -> <<>>

quenya_verb_present(stem, person, number) ==
  (IF EndsWith(stem, <<"a">>) THEN stem ELSE stem \o <<"a">>)
    \o _verb_agreement_suffix(person, number)

quenya_verb_past(stem, person, number) ==
  stem \o <<"n","e:">> \o _verb_agreement_suffix(person, number)

quenya_verb_future(stem, person, number) ==
  stem \o <<"u","v","a">> \o _verb_agreement_suffix(person, number)

quenya_translate_lemma_en_to_lang(lex, lemma_en) ==
  IF HasKey(lex, lemma_en) THEN Entry(lex, lemma_en).lemma_lang ELSE lemma_en

quenya_translate_lemma_lang_to_en(rev, lemma_lang) ==
  IF lemma_lang \in DOMAIN rev THEN rev[lemma_lang] ELSE lemma_lang

\* The scan of lines 96-103: the three indices after token i and the ones
\* before it (0 is None; tokens are numbered from 1).
NoRoles == [subject_idx |-> 0, verb_idx |-> 0, object_idx |-> 0]

ScanStep(r, t, i) ==
  LET s == IF t.pos = "PRON" \/ (t.pos = "NOUN" /\ r.subject_idx = 0)
           THEN i ELSE r.subject_idx
      v == IF t.pos = "VERB" THEN i ELSE r.verb_idx
      o == IF t.pos = "NOUN" /\ i # s THEN i ELSE r.object_idx
  IN [subject_idx |-> s, verb_idx |-> v, object_idx |-> o]

RECURSIVE ScanRoles(_, _)
ScanRoles(tokens, n) ==
  IF n = 0 THEN NoRoles ELSE ScanStep(ScanRoles(tokens, n - 1), tokens[n], n)

FindRoles(tokens) == ScanRoles(tokens, Len(tokens))

\* Lines 105-118: the features written on token i
MarkSubject(t, feats) ==
  LET nom == Put(feats, "case", "NOM")
  IN IF Lower(t.text) = <<"i">> \/ Lower(t.text) = <<"I">>
       THEN Put(Put(nom, "person", "1"), "number", "SG")
     ELSE IF Lower(t.text) = <<"y","o","u">>
       THEN Put(Put(nom, "person", "2"), "number", "SG")
     ELSE SetDefault(SetDefault(nom, "person", "3"), "number", "SG")

MarkRoles(t, i, r) ==
  LET f0 == FeatsOrEmpty(t.feats)
      f1 == IF i = r.object_idx THEN Put(f0, "case", "ACC") ELSE f0
      f2 == IF i = r.subject_idx THEN MarkSubject(t, f1) ELSE f1
  IN [t EXCEPT !.feats = f2]

\* Lines 120-126: the order of the returned list, as indices into the input
Extras(n, r) ==
  SelectSeq([i \in 1..n |-> i],
            LAMBDA i : i \notin {r.subject_idx, r.object_idx, r.verb_idx})

\* A reorder that leaves the verb before the object
ReorderVerbSecond(n, r) ==
  IF r.subject_idx # 0 /\ r.verb_idx # 0 /\ r.object_idx # 0
  THEN <<r.subject_idx, r.verb_idx, r.object_idx>> \o Extras(n, r)
  ELSE [i \in 1..n |-> i]

Reorder(n, r) ==
  IF r.subject_idx # 0 /\ r.verb_idx # 0 /\ r.object_idx # 0
  THEN <<r.subject_idx, r.object_idx, r.verb_idx>> \o Extras(n, r)
  ELSE [i \in 1..n |-> i]

\* syntax_map as the caller sees it: the objects after the call, by input
\* position, and the list returned, as references to them
quenya_syntax_map_objs(tokens) ==
  [i \in 1..Len(tokens) |-> MarkRoles(tokens[i], i, FindRoles(tokens))]

quenya_syntax_map_refs(tokens) == Reorder(Len(tokens), FindRoles(tokens))

quenya_syntax_map(tokens) ==
  LET out == quenya_syntax_map_objs(tokens)
      order == quenya_syntax_map_refs(tokens)
  IN [k \in 1..Len(order) |-> out[order[k]]]

quenya_inflect_from_lemma(lemma, pos, feats) ==
  IF pos = "NOUN" THEN
    LET case == Get(feats, "case", "NOM")
        num == Get(feats, "number", "SG")
        s1 == IF case = "GEN" THEN quenya_noun_genitive(lemma)
              ELSE IF case = "ALL" THEN quenya_noun_allative(lemma)
              ELSE lemma
        s2 == IF num = "PL" THEN quenya_noun_plural(s1) ELSE s1
    IN Wordform(s2, lemma, pos, feats)
  ELSE IF pos \in {"PRON", "DET", "ADP", "CONJ"} THEN
    Wordform(lemma, lemma, pos, feats)
  ELSE IF pos = "VERB" THEN
    LET tense == Get(feats, "tense", "PRS")
        person == Get(feats, "person", "3")
        number == Get(feats, "number", "SG")
        form == IF tense = "PRS" THEN quenya_verb_present(lemma, person, number)
                ELSE IF tense = "PST" THEN quenya_verb_past(lemma, person, number)
                ELSE IF tense = "FUT" THEN quenya_verb_future(lemma, person, number)
                ELSE quenya_verb_present(lemma, person, number)
    IN Wordform(form, lemma, pos, feats)
  ELSE Wordform(lemma, lemma, pos, feats)

QuenyaSuffixes ==
  << <<"n","n","a">>, <<"o">>, <<"r">>, <<"n","e:">>, <<"u","v","a">>,
     <<"l","m","e:">>, <<"l","v","e:">> >>

\* Lines 160-164: the first suffix of the list the surface ends with
HasSuffix(s, sufs) == \E i \in 1..Len(sufs) : EndsWith(s, sufs[i])
FirstSuffix(s, sufs) ==
  sufs[CHOOSE i \in 1..Len(sufs) :
         /\ EndsWith(s, sufs[i])
         /\ \A j \in 1..(i - 1) : ~EndsWith(s, sufs[j])]

quenya_lemma_guess(surface) ==
  IF HasSuffix(surface, QuenyaSuffixes)
  THEN Remove(surface, FirstSuffix(surface, QuenyaSuffixes))
  ELSE surface

quenya_decode_surface_to_en(rev, surface, pos, feats) ==
  LET en_lemma == quenya_translate_lemma_lang_to_en(rev, quenya_lemma_guess(surface))
  IN Wordform(en_lemma, en_lemma, pos, feats)

quenya_assemble_sentence(wordforms) ==
  Capitalize(Join([i \in 1..Len(wordforms) |-> wordforms[i].surface]))

--------------------------------------------------------------------------
(* languages/sindarin.py *)

LenitionRules ==
  << <<(<<"p">>), <<"b">>>>, <<(<<"t">>), <<"d">>>>, <<(<<"c">>), <<"g">>>>,
     <<(<<"m">>), <<"v">>>>, <<(<<"s">>), <<"h">>>>, <<(<<"h">>), <<>>>>,
     <<(<<"g","w">>), <<"w">>>> >>

\* The first pair of an ordered list of (prefix, replacement) whose prefix
\* starts the word replaces it; no pair: the word unchanged
MutateInitial(word, rules) ==
  IF \E i \in 1..Len(rules) : StartsWith(word, rules[i][1])
  THEN LET i == CHOOSE i \in 1..Len(rules) :
                  /\ StartsWith(word, rules[i][1])
                  /\ \A j \in 1..(i - 1) : ~StartsWith(word, rules[j][1])
       IN rules[i][2] \o DropFirst(word, Len(rules[i][1]))
  ELSE word

apply_lenition(noun) == MutateInitial(noun, LenitionRules)

pluralize_noun(stem) ==
  IF EndsWith(stem, <<"o","n">>) THEN DropLast(stem, 2) \o <<"i","n">>
  ELSE IF EndsWith(stem, <<"e","g">>) THEN DropLast(stem, 2) \o <<"i","g">>
  ELSE stem \o <<"i","n">>

sindarin_verb_present(stem, person, number) ==
  IF person = "3" /\ number = "SG" THEN stem
  ELSE IF number = "PL" THEN stem \o <<"i","r">>
  ELSE stem \o <<"a">>

sindarin_verb_past(stem) == stem \o <<"n","t">>

sindarin_verb_future(stem) == stem \o <<"t","h","a">>

sindarin_translate_lemma_en_to_lang(lex, lemma_en) ==
  IF HasKey(lex, lemma_en) THEN Entry(lex, lemma_en).lemma_lang ELSE lemma_en

sindarin_translate_lemma_lang_to_en(rev, lemma_lang) ==
  IF lemma_lang \in DOMAIN rev THEN rev[lemma_lang] ELSE lemma_lang

\* Lines 80-95: prev_det after one token, and after the first n tokens
\* A pass that resets the flag only at a noun
StepDetSticky(prev_det, t) ==
  IF t.pos = "DET" THEN TRUE
  ELSE IF t.pos = "NOUN" THEN FALSE
  ELSE prev_det

StepDet(prev_det, t) ==
  IF t.pos = "DET" THEN TRUE
  ELSE IF t.pos = "NOUN" THEN FALSE
  ELSE IF t.pos = "VERB" THEN FALSE
  ELSE FALSE

RECURSIVE PrevDet(_, _)
PrevDet(tokens, n) ==
  IF n = 0 THEN FALSE ELSE StepDet(PrevDet(tokens, n - 1), tokens[n])

\* Lines 82-94: the features written on a token, given prev_det before it
MarkToken(t, prev_det) ==
  LET f0 == FeatsOrEmpty(t.feats)
      f1 == IF t.pos = "DET" THEN Put(f0, "det", "i")
            ELSE IF t.pos = "NOUN"
              THEN Put(f0, "lenite", IF prev_det THEN "yes" ELSE "no")
            ELSE IF t.pos = "VERB" THEN SetDefault(f0, "tense", "PRS")
            ELSE f0
  IN [t EXCEPT !.feats = f1]

sindarin_syntax_map_objs(tokens) ==
  [i \in 1..Len(tokens) |-> MarkToken(tokens[i], PrevDet(tokens, i - 1))]

sindarin_syntax_map_refs(tokens) == [i \in 1..Len(tokens) |-> i]

sindarin_syntax_map(tokens) ==
  LET out == sindarin_syntax_map_objs(tokens)
      order == sindarin_syntax_map_refs(tokens)
  IN [k \in 1..Len(order) |-> out[order[k]]]

sindarin_inflect_from_lemma(lemma, pos, feats) ==
  IF pos = "NOUN" THEN
    LET s1 == IF Get(feats, "lenite", "None") = "yes"
              THEN apply_lenition(lemma) ELSE lemma
        s2 == IF Get(feats, "number", "None") = "PL"
              THEN pluralize_noun(s1) ELSE s1
    IN Wordform(s2, lemma, pos, feats)
  ELSE IF pos = "DET" THEN Wordform(<<"i">>, lemma, pos, feats)
  ELSE IF pos \in {"PRON", "ADP", "CONJ"} THEN Wordform(lemma, lemma, pos, feats)
  ELSE IF pos = "VERB" THEN
    LET tense == Get(feats, "tense", "PRS")
        person == Get(feats, "person", "3")
        number == Get(feats, "number", "SG")
        form == IF tense = "PRS" THEN sindarin_verb_present(lemma, person, number)
                ELSE IF tense = "PST" THEN sindarin_verb_past(lemma)
                ELSE IF tense = "FUT" THEN sindarin_verb_future(lemma)
                ELSE sindarin_verb_present(lemma, person, number)
    IN Wordform(form, lemma, pos, feats)
  ELSE Wordform(lemma, lemma, pos, feats)

DelenitionRules ==
  << <<(<<"b">>), <<"p">>>>, <<(<<"d">>), <<"t">>>>, <<(<<"g">>), <<"c">>>>,
     <<(<<"v">>), <<"m">>>> >>

SindarinSuffixes ==
  << <<"i","n">>, <<"i","r">>, <<"a">>, <<"n","t">>, <<"t","h","a">> >>

sindarin_lemma_guess(surface) ==
  LET s == MutateInitial(surface, DelenitionRules)
  IN IF HasSuffix(s, SindarinSuffixes)
     THEN DropLast(s, Len(FirstSuffix(s, SindarinSuffixes)))
     ELSE s

sindarin_decode_surface_to_en(rev, surface, pos, feats) ==
  LET en_lemma == sindarin_translate_lemma_lang_to_en(rev, sindarin_lemma_guess(surface))
  IN Wordform(en_lemma, en_lemma, pos, feats)

sindarin_assemble_sentence(wordforms) ==
  Capitalize(Join([i \in 1..Len(wordforms) |-> wordforms[i].surface]))

--------------------------------------------------------------------------
(* engine.py: TranslatorEngine, over the language module lang and its tables *)

\* A heuristic without the "ed" rule
GuessPosNoEd(word) ==
  IF EndsWith(word, <<"i","n","g">>) THEN "VERB"
  ELSE IF EndsWith(word, <<"l","y">>) THEN "ADV"
  ELSE "NOUN"

_guess_pos(word) ==
  IF EndsWith(word, <<"i","n","g">>) THEN "VERB"
  ELSE IF EndsWith(word, <<"l","y">>) THEN "ADV"
  ELSE IF EndsWith(word, <<"e","d">>) THEN "VERB"
  ELSE "NOUN"

TagToken(lex, tok) ==
  LET word == Lower(tok.text)
      feats == IF tok.feats = NoneFeats \/ tok.feats = EmptyFeats
               THEN EmptyFeats ELSE tok.feats
  IN IF HasKey(lex, word)
     THEN [tok EXCEPT !.lemma = Entry(lex, word).lemma_en,
                      !.pos = Entry(lex, word).pos,
                      !.feats = feats]
     ELSE [tok EXCEPT !.lemma = word,
                      !.pos = _guess_pos(tok.text),
                      !.feats = feats]

pos_tag(lex, tokens) == [i \in 1..Len(tokens) |-> TagToken(lex, tokens[i])]

syntax_map(lang, tokens) ==
  IF lang = "quenya" THEN quenya_syntax_map(tokens)
  ELSE sindarin_syntax_map(tokens)

TranslateToken(lang, lex, rev, tok, direction) ==
  LET mapped == [Token(tok.text) EXCEPT !.lemma = tok.lemma, !.pos = tok.pos,
                                        !.feats = FeatsOrEmpty(tok.feats)]
      src == IF tok.lemma = NoneStr \/ tok.lemma = <<>>
             THEN Lower(tok.text) ELSE tok.lemma
  IN IF direction = "encode"
     THEN [mapped EXCEPT
             !.lemma = IF lang = "quenya"
                       THEN quenya_translate_lemma_en_to_lang(lex, tok.lemma)
                       ELSE sindarin_translate_lemma_en_to_lang(lex, tok.lemma),
             !.lang = lang]
     ELSE [mapped EXCEPT
             !.lemma = IF lang = "quenya"
                       THEN quenya_translate_lemma_lang_to_en(rev, src)
                       ELSE sindarin_translate_lemma_lang_to_en(rev, src),
             !.lang = "en"]

translate_lemmas(lang, lex, rev, tokens, direction) ==
  [i \in 1..Len(tokens) |-> TranslateToken(lang, lex, rev, tokens[i], direction)]

GenerateToken(lang, rev, tok, direction) ==
  LET feats == FeatsOrEmpty(tok.feats)
  IN IF direction = "encode"
     THEN IF lang = "quenya"
          THEN quenya_inflect_from_lemma(tok.lemma, tok.pos, feats)
          ELSE sindarin_inflect_from_lemma(tok.lemma, tok.pos, feats)
     ELSE IF lang = "quenya"
          THEN quenya_decode_surface_to_en(rev, tok.text, tok.pos, feats)
          ELSE sindarin_decode_surface_to_en(rev, tok.text, tok.pos, feats)

morph_generate(lang, rev, tokens, direction) ==
  [i \in 1..Len(tokens) |-> GenerateToken(lang, rev, tokens[i], direction)]

assemble(lang, wordforms) ==
  IF lang = "quenya" THEN quenya_assemble_sentence(wordforms)
  ELSE sindarin_assemble_sentence(wordforms)

\* translate(): the five stages in sequence
translate(lang, lex, rev, text, direction) ==
  LET t0 == [i \in 1..Len(tokenize(text)) |-> Token(tokenize(text)[i])]
      t1 == pos_tag(lex, t0)
      t2 == syntax_map(lang, t1)
      t3 == translate_lemmas(lang, lex, rev, t2, direction)
      wf == morph_generate(lang, rev, t3, direction)
  IN assemble(lang, wf)

--------------------------------------------------------------------------
(* Bounds and inputs of the checks *)

NumCalls == 2     \* translate() calls in flight at once
MaxWords == 2     \* raw strings handed to pos_tag
MaxTokens == 5    \* tagged tokens handed to a syntax mapper

Directions == {"encode", "decode"}

TextISeeTheKing == <<"I"," ","s","e","e"," ","t","h","e"," ","k","i","n","g">>
TextYouSeeTheKingStop ==
  <<"y","o","u"," ","s","e","e"," ","t","h","e"," ","k","i","n","g",".">>

Texts == {TextISeeTheKing, TextYouSeeTheKingStop}

SeqsUpTo(S, n) == UNION {[1..k -> S] : k \in 0..n}

\* The module-level dicts are built from their literals at import; the state
\* holds what has been written to them since, and a read sees the literal
\* with those writes laid over it.
NoWrites == [l \in Languages |-> <<>>]

ForwardTable(lang) ==
  SelectSeq(Lexicon(lang),
            LAMBDA row : \A i \in 1..Len(lexicon_en[lang]) :
                           lexicon_en[lang][i].key # row.key)
    \o lexicon_en[lang]

ReverseTable(lang) ==
  [l \in DOMAIN Reverse(Lexicon(lang)) \cup DOMAIN lexicon_lang_to_en[lang] |->
     IF l \in DOMAIN lexicon_lang_to_en[lang]
     THEN lexicon_lang_to_en[lang][l]
     ELSE Reverse(Lexicon(lang))[l]]

Idle ==
  [pc |-> "idle", lang |-> "quenya", direction |-> "encode", text |-> <<>>,
   tokens |-> <<>>, wordforms |-> <<>>, result |-> <<>>]

NoUnit == fn = "translate" /\ arg = <<>> /\ objs = <<>> /\ ret = <<>> /\ phase = "none"

--------------------------------------------------------------------------
(* Spec: translate() calls running stage by stage, interleaved.  The      *)
(* tables are the module-level dicts, set when the modules are imported.  *)

Init ==
  /\ lexicon_en = NoWrites
  /\ lexicon_lang_to_en = NoWrites
  /\ calls = [c \in 1..NumCalls |-> Idle]
  /\ NoUnit

unit == <<fn, arg, objs, ret, phase>>
tables == <<lexicon_en, lexicon_lang_to_en>>

\* main() / translate(), lines 88-89: engine chosen, text tokenized
Call(c) ==
  /\ calls[c].pc = "idle"
  /\ \E lang \in Languages, direction \in Directions, text \in Texts :
       calls' = [calls EXCEPT ![c] =
         [Idle EXCEPT !.pc = "pos_tag", !.lang = lang, !.direction = direction,
                      !.text = text,
                      !.tokens = [i \in 1..Len(tokenize(text)) |->
                                    Token(tokenize(text)[i])]]]
  /\ UNCHANGED <<tables, unit>>

PosTag(c) ==
  /\ calls[c].pc = "pos_tag"
  /\ calls' = [calls EXCEPT
       ![c].tokens = pos_tag(ForwardTable(calls[c].lang), calls[c].tokens),
       ![c].pc = "syntax_map"]
  /\ UNCHANGED <<tables, unit>>

SyntaxMap(c) ==
  /\ calls[c].pc = "syntax_map"
  /\ calls' = [calls EXCEPT
       ![c].tokens = syntax_map(calls[c].lang, calls[c].tokens),
       ![c].pc = "translate_lemmas"]
  /\ UNCHANGED <<tables, unit>>

\* A translate_lemmas that memoises each lookup in the module's reverse table
TranslateLemmasCaching(c) ==
  LET lang == calls[c].lang
      old == lexicon_lang_to_en[lang]
      toks == calls[c].tokens
      new == translate_lemmas(lang, ForwardTable(lang), ReverseTable(lang),
                              toks, calls[c].direction)
  IN /\ calls[c].pc = "translate_lemmas"
     /\ calls' = [calls EXCEPT ![c].tokens = new, ![c].pc = "morph_generate"]
     /\ lexicon_lang_to_en' = [lexicon_lang_to_en EXCEPT ![lang] =
          [l \in DOMAIN old \cup {toks[i].lemma : i \in 1..Len(toks)} |->
             IF \E i \in 1..Len(toks) : toks[i].lemma = l
             THEN new[CHOOSE i \in 1..Len(toks) : toks[i].lemma = l].lemma
             ELSE old[l]]]
     /\ UNCHANGED <<lexicon_en, unit>>

TranslateLemmas(c) ==
  /\ calls[c].pc = "translate_lemmas"
  /\ calls' = [calls EXCEPT
       ![c].tokens = translate_lemmas(calls[c].lang, ForwardTable(calls[c].lang),
                                      ReverseTable(calls[c].lang),
                                      calls[c].tokens, calls[c].direction),
       ![c].pc = "morph_generate"]
  /\ UNCHANGED <<tables, unit>>

MorphGenerate(c) ==
  /\ calls[c].pc = "morph_generate"
  /\ calls' = [calls EXCEPT
       ![c].wordforms = morph_generate(calls[c].lang,
                                       ReverseTable(calls[c].lang),
                                       calls[c].tokens, calls[c].direction),
       ![c].pc = "assemble"]
  /\ UNCHANGED <<tables, unit>>

Assemble(c) ==
  /\ calls[c].pc = "assemble"
  /\ calls' = [calls EXCEPT
       ![c].result = assemble(calls[c].lang, calls[c].wordforms),
       ![c].pc = "done"]
  /\ UNCHANGED <<tables, unit>>

Next ==
  \E c \in 1..NumCalls :
    \/ Call(c)
    \/ PosTag(c)
    \/ SyntaxMap(c)
    \/ TranslateLemmas(c)
    \/ MorphGenerate(c)
    \/ Assemble(c)

Spec == Init /\ [][Next]_vars

--------------------------------------------------------------------------
(* Claims about whole translate() runs, under Spec *)

Running(c) == calls[c].pc # "idle"
Tagged(c) == calls[c].pc \notin {"idle", "pos_tag"}
Generated(c) == calls[c].pc \in {"assemble", "done"}
Done(c) == calls[c].pc = "done"

IsScenario(c) ==
  /\ Running(c)
  /\ calls[c].lang = "quenya"
  /\ calls[c].direction = "encode"
  /\ calls[c].text = TextISeeTheKing

\* C1: translate("I see the king", "encode") with the Quenya module tags
\* I=PRON/I, see=VERB/see, the=DET/the, king=NOUN/king; the mapper puts
\* subject, object, verb first with case NOM and ACC; the lemmas become ni,
\* aran, cenda; the verb is inflected with suffix "n"; the call returns
\* exactly "Ni aran cendan".
C1_EndToEnd ==
  \A c \in 1..NumCalls : IsScenario(c) =>
    /\ calls[c].pc = "syntax_map" =>
         /\ [i \in 1..Len(calls[c].tokens) |-> calls[c].tokens[i].pos]
              = <<"PRON", "VERB", "DET", "NOUN">>
         /\ [i \in 1..Len(calls[c].tokens) |-> calls[c].tokens[i].lemma]
              = << <<"I">>, <<"s","e","e">>, <<"t","h","e">>, <<"k","i","n","g">> >>
    /\ calls[c].pc = "translate_lemmas" =>
         /\ Len(calls[c].tokens) >= 3
         /\ [i \in 1..3 |-> calls[c].tokens[i].text]
              = << <<"I">>, <<"k","i","n","g">>, <<"s","e","e">> >>
         /\ Get(calls[c].tokens[1].feats, "case", "None") = "NOM"
         /\ Get(calls[c].tokens[2].feats, "case", "None") = "ACC"
    /\ calls[c].pc = "morph_generate" =>
         [i \in 1..3 |-> calls[c].tokens[i].lemma]
           = << <<"n","i">>, <<"a","r","a","n">>, <<"c","e","n","d","a">> >>
    /\ calls[c].pc = "assemble" =>
         calls[c].wordforms[3].surface = <<"c","e","n","d","a","n">>
    /\ calls[c].pc = "done" =>
         calls[c].result
           = <<"N","i"," ","a","r","a","n"," ","c","e","n","d","a","n">>

IsPunctuation(text) ==
  Len(text) = 1 /\ ~IsWordChar(text[1]) /\ ~IsSpace(text[1])

\* C5: a punctuation token is never tagged NOUN or VERB, so it is never
\* given a case as subject or object, and its surface in the assembled
\* output is its own text.
C5_PunctuationIsOther ==
  \A c \in 1..NumCalls :
    /\ Tagged(c) /\ ~Generated(c) =>
         \A i \in 1..Len(calls[c].tokens) :
           IsPunctuation(calls[c].tokens[i].text) =>
             /\ calls[c].tokens[i].pos \notin {"NOUN", "VERB"}
             /\ "case" \notin DOMAIN calls[c].tokens[i].feats
             /\ "lenite" \notin DOMAIN calls[c].tokens[i].feats
    /\ Generated(c) =>
         \A i \in 1..Len(calls[c].wordforms) :
           IsPunctuation(calls[c].tokens[i].text) =>
             /\ calls[c].wordforms[i].pos \notin {"NOUN", "VERB"}
             /\ calls[c].wordforms[i].surface = calls[c].tokens[i].text

\* The place in a call's mapped list of the token the mapper took for a role
TaggedInput(c) ==
  pos_tag(Lexicon(calls[c].lang),
          [i \in 1..Len(tokenize(calls[c].text)) |-> Token(tokenize(calls[c].text)[i])])
PlaceOf(c, idx) ==
  CHOOSE k \in 1..Len(calls[c].tokens) :
    quenya_syntax_map_refs(TaggedInput(c))[k] = idx

\* C10: in a Quenya encode run where the mapper finds a subject and a verb,
\* the verb's surface carries the agreement suffix of the person and
\* number the mapper wrote on the subject.
C10_AgreementReachesVerb ==
  \A c \in 1..NumCalls :
    (Generated(c) /\ calls[c].lang = "quenya" /\ calls[c].direction = "encode") =>
      LET r == FindRoles(TaggedInput(c))
      IN (r.subject_idx # 0 /\ r.verb_idx # 0) =>
           LET s == calls[c].wordforms[PlaceOf(c, r.subject_idx)]
               v == calls[c].wordforms[PlaceOf(c, r.verb_idx)]
           IN /\ Get(v.feats, "person", "None") = s.feats.person
              /\ Get(v.feats, "number", "None") = s.feats.number
              /\ v.surface =
                   quenya_verb_present(v.lemma, s.feats.person, s.feats.number)

\* C8: in every reachable state the forward and reverse tables are the
\* ones set at import, and a finished call holds the string the same call
\* returns when run alone, whatever the other calls did meanwhile.
C8_CallsDoNotInterfere ==
  /\ lexicon_en = NoWrites
  /\ lexicon_lang_to_en = NoWrites
  /\ \A c \in 1..NumCalls : Done(c) =>
       calls[c].result =
         translate(calls[c].lang, Lexicon(calls[c].lang),
                   Reverse(Lexicon(calls[c].lang)), calls[c].text,
                   calls[c].direction)

\* Two calls on the same language module, one finished after the other
\* had passed lemma translation and before it finished
C8_Witness ==
  \E c, d \in 1..NumCalls :
    /\ c # d
    /\ calls[c].lang = calls[d].lang
    /\ Done(c)
    /\ calls[c].direction = "decode"
    /\ calls[d].pc = "morph_generate"
    /\ calls[d].direction = "decode"

--------------------------------------------------------------------------
(* Function-level checks: one call of one function, its argument drawn    *)
(* from a bounded set.  No translate() call runs and no table is written. *)

UnitInit(f) ==
  /\ lexicon_en = NoWrites
  /\ lexicon_lang_to_en = NoWrites
  /\ calls = <<>>
  /\ fn = f
  /\ ret = <<>>
  /\ phase = "call"

Returned(f) == fn = f /\ phase = "return"

Identity(n) == [i \in 1..n |-> i]

--------------------------------------------------------------------------
(* SpecTag: TranslatorEngine.pos_tag on fresh Tokens *)

WordI == <<"I">>
WordKing == <<"K","i","n","g">>
WordThe == <<"t","h","e">>
WordRunning == <<"r","u","n","n","i","n","g">>
WordQuickly == <<"q","u","i","c","k","l","y">>
WordWalked == <<"w","a","l","k","e","d">>
WordStop == <<".">>
WordBED == <<"B","E","D">>

TagWords ==
  {WordI, WordKing, WordThe, WordRunning, WordQuickly, WordWalked, WordStop, WordBED}

InitTag ==
  /\ UnitInit("pos_tag")
  /\ arg \in [lang : Languages, words : SeqsUpTo(TagWords, MaxWords)]
  /\ objs = [i \in 1..Len(arg.words) |-> Token(arg.words[i])]

\* pos_tag writes lemma, pos and feats on each Token and returns the list
TagCall ==
  /\ fn = "pos_tag" /\ phase = "call"
  /\ objs' = pos_tag(ForwardTable(arg.lang), objs)
  /\ ret' = Identity(Len(objs))
  /\ phase' = "return"
  /\ UNCHANGED <<tables, calls, fn, arg>>

NextTag == TagCall

SpecTag == InitTag /\ [][NextTag]_vars

IsMiss(lang, word) == ~HasKey(Lexicon(lang), Lower(word))

\* C7: pos_tag returns the same Tokens in the same order, each with a
\* lemma, a part-of-speech and an empty (not None) feature mapping; on a
\* lexicon miss the lemma is the lowercased text and the part-of-speech is
\* VERB for text ending in "ing" or "ed", ADV for "ly", NOUN otherwise.
C7_TaggingIsTotal ==
  Returned("pos_tag") =>
    /\ ret = Identity(Len(arg.words))
    /\ Len(objs) = Len(arg.words)
    /\ \A i \in 1..Len(arg.words) :
         /\ objs[i].text = arg.words[i]
         /\ objs[i].lemma # NoneStr
         /\ objs[i].pos # NonePos
         /\ objs[i].feats # NoneFeats
         /\ DOMAIN objs[i].feats = {}
         /\ IsMiss(arg.lang, arg.words[i]) =>
              /\ objs[i].lemma = Lower(arg.words[i])
              /\ objs[i].pos =
                   IF \/ EndsWith(arg.words[i], <<"i","n","g">>)
                      \/ EndsWith(arg.words[i], <<"e","d">>)
                   THEN "VERB"
                   ELSE IF EndsWith(arg.words[i], <<"l","y">>) THEN "ADV"
                   ELSE "NOUN"

\* A hit and a miss of each kind tagged in one call
C7_Witness ==
  /\ Returned("pos_tag")
  /\ \E i, j \in 1..Len(objs) :
       /\ ~IsMiss(arg.lang, arg.words[i]) /\ objs[i].pos = "DET"
       /\ IsMiss(arg.lang, arg.words[j]) /\ objs[j].pos = "VERB"
       /\ EndsWith(arg.words[j], <<"e","d">>)

--------------------------------------------------------------------------
(* SpecSov: quenya.syntax_map on tagged Tokens, as pos_tag leaves them *)

TaggedToken(text, lemma, pos, feats) ==
  [text |-> text, lemma |-> lemma, pos |-> pos, feats |-> feats, lang |-> "en"]

TokI == TaggedToken(<<"I">>, <<"I">>, "PRON", EmptyFeats)
TokYou == TaggedToken(<<"y","o","u">>, <<"y","o","u">>, "PRON", EmptyFeats)
TokKing == TaggedToken(<<"k","i","n","g">>, <<"k","i","n","g">>, "NOUN", EmptyFeats)
TokINoun == TaggedToken(<<"I">>, <<"i">>, "NOUN", EmptyFeats)
TokSee == TaggedToken(<<"s","e","e">>, <<"s","e","e">>, "VERB", EmptyFeats)
TokThe == TaggedToken(<<"t","h","e">>, <<"t","h","e">>, "DET", EmptyFeats)
TokSaw == TaggedToken(<<"s","a","w">>, <<"s","a","w">>, "VERB", [tense |-> "PST"])

SovTokens == {TokI, TokYou, TokKing, TokINoun, TokSee, TokThe}

InitSov ==
  /\ UnitInit("quenya.syntax_map")
  /\ arg \in SeqsUpTo(SovTokens, MaxTokens)
  /\ objs = arg

\* syntax_map rewrites feats on each Token and returns a new list of them
SovCall ==
  /\ fn = "quenya.syntax_map" /\ phase = "call"
  /\ objs' = quenya_syntax_map_objs(objs)
  /\ ret' = quenya_syntax_map_refs(objs)
  /\ phase' = "return"
  /\ UNCHANGED <<tables, calls, fn, arg>>

NextSov == SovCall

SpecSov == InitSov /\ [][NextSov]_vars

\* The roles as the call shows them: NOM on the subject, ACC on the object
CaseHolders(case) ==
  {i \in 1..Len(objs) : Get(objs[i].feats, "case", "None") = case}
PosOf(i) == arg[i].pos
Frame == FindRoles(arg)
FrameComplete ==
  Frame.subject_idx # 0 /\ Frame.object_idx # 0 /\ Frame.verb_idx # 0

\* C3: when subject, object and verb are all found the returned list is
\* [subject, object, verb] and then every other token in its original
\* relative order, a permutation of the input; [PRON, VERB, NOUN] gives
\* [PRON, NOUN, VERB]; with a role missing the list is the input's.
C3_SovReorder ==
  Returned("quenya.syntax_map") =>
    /\ Len(ret) = Len(arg)
    /\ {ret[k] : k \in 1..Len(ret)} = 1..Len(arg)
    /\ \A i \in 1..Len(arg) :
         /\ objs[i].text = arg[i].text
         /\ objs[i].pos = arg[i].pos
    /\ FrameComplete =>
         /\ CaseHolders("NOM") = {ret[1]}
         /\ CaseHolders("ACC") = {ret[2]}
         /\ ret[1] = Frame.subject_idx
         /\ ret[2] = Frame.object_idx
         /\ ret[3] = Frame.verb_idx
         /\ PosOf(ret[1]) \in {"PRON", "NOUN"}
         /\ PosOf(ret[2]) = "NOUN"
         /\ PosOf(ret[3]) = "VERB"
         /\ \A k, l \in 4..Len(ret) : k < l => ret[k] < ret[l]
    /\ ~FrameComplete => ret = Identity(Len(arg))
    /\ [i \in 1..Len(arg) |-> PosOf(i)] = <<"PRON", "VERB", "NOUN">> =>
         ret = <<1, 3, 2>>

\* A complete frame with two other tokens that the reorder moves behind it
C3_Witness ==
  /\ Returned("quenya.syntax_map")
  /\ FrameComplete
  /\ Len(ret) = 5
  /\ ret[3] > ret[4]
  /\ ret[4] < ret[5]
  /\ ret # Identity(5)

FirstIn(S) == IF S = {} THEN 0 ELSE CHOOSE i \in S : \A j \in S : i <= j
FirstSubject == FirstIn({i \in 1..Len(arg) : PosOf(i) \in {"PRON", "NOUN"}})
FirstVerb == FirstIn({i \in 1..Len(arg) : PosOf(i) = "VERB"})
FirstObject ==
  FirstIn({i \in 1..Len(arg) : PosOf(i) = "NOUN" /\ i # FirstSubject})

\* C4: the subject is the first PRON or NOUN token, the verb the first
\* VERB, the object the first NOUN other than the subject; later
\* candidates never replace a role already assigned.
C4_FirstMatchWins ==
  Returned("quenya.syntax_map") =>
    /\ CaseHolders("NOM") = {FirstSubject} \ {0}
    /\ CaseHolders("ACC") = {FirstObject} \ {0}
    /\ (FirstSubject # 0 /\ FirstObject # 0 /\ FirstVerb # 0) =>
         SubSeq(ret, 1, 3) = <<FirstSubject, FirstObject, FirstVerb>>

--------------------------------------------------------------------------
(* SpecSvo: sindarin.syntax_map on tagged Tokens; a verb may carry a tense *)

SvoTokens == {TokThe, TokKing, TokSee, TokSaw, TokYou}

InitSvo ==
  /\ UnitInit("sindarin.syntax_map")
  /\ arg \in SeqsUpTo(SvoTokens, MaxTokens)
  /\ objs = arg

SvoCall ==
  /\ fn = "sindarin.syntax_map" /\ phase = "call"
  /\ objs' = sindarin_syntax_map_objs(objs)
  /\ ret' = sindarin_syntax_map_refs(objs)
  /\ phase' = "return"
  /\ UNCHANGED <<tables, calls, fn, arg>>

NextSvo == SvoCall

SpecSvo == InitSvo /\ [][NextSvo]_vars

FollowsDet(i) == i > 1 /\ arg[i - 1].pos = "DET"

\* C9: the SVO mapper returns the same tokens in the same order; a NOUN
\* gets lenite "yes" exactly when the token just before it is a DET and
\* "no" otherwise; a DET gets det "i"; a VERB without a tense gets PRS and
\* a tense already set is kept.
C9_SvoStreamingPass ==
  Returned("sindarin.syntax_map") =>
    /\ ret = Identity(Len(arg))
    /\ Len(objs) = Len(arg)
    /\ \A i \in 1..Len(arg) :
         /\ objs[i].text = arg[i].text
         /\ objs[i].pos = arg[i].pos
         /\ objs[i].lemma = arg[i].lemma
         /\ arg[i].pos = "NOUN" =>
              objs[i].feats = Put(arg[i].feats, "lenite",
                                  IF FollowsDet(i) THEN "yes" ELSE "no")
         /\ arg[i].pos = "DET" => objs[i].feats = Put(arg[i].feats, "det", "i")
         /\ arg[i].pos = "VERB" =>
              objs[i].feats =
                IF "tense" \in DOMAIN arg[i].feats THEN arg[i].feats
                ELSE Put(arg[i].feats, "tense", "PRS")
         /\ arg[i].pos \notin {"NOUN", "DET", "VERB"} =>
              objs[i].feats = arg[i].feats

\* A lenited noun, a noun that a verb or pronoun separates from the
\* determiner, a defaulted tense and a kept one, in one call
C9_Witness ==
  /\ Returned("sindarin.syntax_map")
  /\ \E i, j, k, l \in 1..Len(arg) :
       /\ arg[i].pos = "NOUN" /\ objs[i].feats.lenite = "yes"
       /\ arg[j].pos = "NOUN" /\ objs[j].feats.lenite = "no"
       /\ j > 2 /\ arg[j - 2].pos = "DET"
       /\ arg[k] = TokSaw /\ objs[k].feats.tense = "PST"
       /\ arg[l] = TokSee /\ objs[l].feats.tense = "PRS"

--------------------------------------------------------------------------
(* SpecDecode: decode_surface_to_en of each module on one surface *)

Suffixes(lang) == IF lang = "quenya" THEN QuenyaSuffixes ELSE SindarinSuffixes

\* Every target lemma of the module, bare and with each suffix of its list
DecodeSurfaces(lang) ==
  {Lexicon(lang)[i].lemma_lang : i \in 1..Len(Lexicon(lang))}
  \cup {Lexicon(lang)[i].lemma_lang \o Suffixes(lang)[j] :
          i \in 1..Len(Lexicon(lang)), j \in 1..Len(Suffixes(lang))}

InitDecode ==
  /\ UnitInit("decode_surface_to_en")
  /\ \E lang \in Languages :
       arg \in [lang : {lang}, surface : DecodeSurfaces(lang)]
  /\ objs = <<>>

\* The call, with the stem it looks up (lemma_guess, s) beside the Wordform
DecodeCall ==
  /\ fn = "decode_surface_to_en" /\ phase = "call"
  /\ ret' = IF arg.lang = "quenya"
            THEN [stem |-> quenya_lemma_guess(arg.surface),
                  wf |-> quenya_decode_surface_to_en(ReverseTable("quenya"),
                           arg.surface, "NOUN", EmptyFeats)]
            ELSE [stem |-> sindarin_lemma_guess(arg.surface),
                  wf |-> sindarin_decode_surface_to_en(ReverseTable("sindarin"),
                           arg.surface, "NOUN", EmptyFeats)]
  /\ phase' = "return"
  /\ UNCHANGED <<tables, calls, fn, arg, objs>>

NextDecode == DecodeCall

SpecDecode == InitDecode /\ [][NextDecode]_vars

\* The word the suffix is cut from: the surface, after the one initial
\* mutation the lenition language reverses
Unmutated(lang, surface) ==
  IF lang = "sindarin" THEN MutateInitial(surface, DelenitionRules) ELSE surface

SingleStrip(lang, surface) ==
  LET w == Unmutated(lang, surface)
  IN IF HasSuffix(w, Suffixes(lang))
     THEN SubSeq(w, 1, Len(w) - Len(FirstSuffix(w, Suffixes(lang))))
     ELSE w

\* C6: decode removes at most one suffix, the first of the language's list
\* that the surface ends with, from the end of the word only: the stem
\* looked up is the surface with that trailing suffix cut off and every
\* other character kept; a stem absent from the reverse lexicon is returned.
C6_DecodeSingleStrip ==
  Returned("decode_surface_to_en") =>
    LET stem == SingleStrip(arg.lang, arg.surface)
        rev == Reverse(Lexicon(arg.lang))
    IN /\ ret.stem = stem
       /\ ret.wf.surface = IF stem \in DOMAIN rev THEN rev[stem] ELSE stem

--------------------------------------------------------------------------
(* SpecRoundTrip: one lexicon word encoded, the result decoded *)

InitRoundTrip ==
  /\ UnitInit("round_trip")
  /\ \E lang \in Languages : \E i \in 1..Len(Lexicon(lang)) :
       arg = [lang |-> lang, word |-> Lexicon(lang)[i].key,
              pos |-> Lexicon(lang)[i].pos]
  /\ objs = <<>>

Uncapitalize(s) == IF s = <<>> THEN <<>> ELSE <<LowerChar(s[1])>> \o Tail(s)

Encode ==
  /\ fn = "round_trip" /\ phase = "call"
  /\ ret' = [encoded |-> translate(arg.lang, ForwardTable(arg.lang),
                                   ReverseTable(arg.lang), arg.word, "encode")]
  /\ phase' = "mid"
  /\ UNCHANGED <<tables, calls, fn, arg, objs>>

\* The target word handed back is the string assemble returned, or that
\* string with its first character as it was before assemble capitalised it
Decode ==
  /\ fn = "round_trip" /\ phase = "mid"
  /\ \E given \in {ret.encoded, Uncapitalize(ret.encoded)} :
       ret' = [encoded |-> ret.encoded, given |-> given,
               decoded |-> translate(arg.lang, ForwardTable(arg.lang),
                                     ReverseTable(arg.lang), given, "decode")]
  /\ phase' = "return"
  /\ UNCHANGED <<tables, calls, fn, arg, objs>>

NextRoundTrip == Encode \/ Decode

SpecRoundTrip == InitRoundTrip /\ [][NextRoundTrip]_vars

\* C2: for every NOUN or closed-class entry of either lexicon, encoding the
\* source word and decoding the target word gives back the source lemma,
\* up to the capital assemble puts on the first character.
C2_RoundTrip ==
  (/\ Returned("round_trip")
   /\ arg.pos \in {"NOUN", "PRON", "DET", "ADP", "CONJ"}
   /\ ret.given = Uncapitalize(ret.encoded)) =>
     Capitalize(ret.decoded) = Capitalize(arg.word)

====
